---- MODULE Spec2Model ----
(***************************************************************************)
(* The pairing-code-to-token authentication service of elix-bridge         *)
(* (internal/auth/service.go), as a state machine.                         *)
(*                                                                         *)
(* Every exported method of Service takes s.mu for its whole body, so one  *)
(* method call is one atomic action.  SaveState is the exception: it       *)
(* copies under the read lock and encodes/writes after releasing it, so it *)
(* is two actions.  time.Now() is the variable clock; one call of a        *)
(* method reads one instant.  Go maps are functions whose DOMAIN is the    *)
(* key set; map iteration order is a nondeterministic choice.              *)
(***************************************************************************)
EXTENDS Integers, FiniteSets, Sequences, TLC

(* ---- bounds of the model ---------------------------------------------- *)
MaxTime == 3
\* Each configuration of the service is explored within bounds of its own: the
\* device identifiers presented, the code values generateNumericCode draws
\* from, and the values generateSecureToken hands out in one run.
\* A service without a storage path and without an observer: three devices and
\* three credentials, as an eviction that keeps a credential needs.
NumDevices == 3
NumCodes == 1
MaxTokens == 3
\* A service with a storage path, where every document multiplies the states.
NumDevicesStored == 2
NumCodesStored == 1
MaxTokensStored == 1
\* A service whose embedding program registers a pairing observer: two code
\* values, as two codes active at once need.
NumDevicesObserved == 2
NumCodesObserved == 2
MaxTokensObserved == 1
\* Observer tasks told apart: MaxObservers stands for "MaxObservers or more".
MaxObservers == 2
\* Goroutines calling the service at once, where calls are taken apart into
\* their lock, read, write and unlock steps.
NumThreads == 2

(* ---- ServiceConfig, scaled down (the defaults are 5 minutes, 30 days and  *)
(*      5 devices)                                                           *)
codeExpiry == 1
tokenExpiry == 2
maxActiveDevices == 1

\* Every value of any configuration.
Codes == UNION {1..NumCodes, 1..NumCodesStored, 1..NumCodesObserved}
Devices == UNION {1..NumDevices, 1..NumDevicesStored, 1..NumDevicesObserved}
TokenValues == UNION {1..MaxTokens, 1..MaxTokensStored, 1..MaxTokensObserved}
DeviceNames == {"Pixel 7"}
Permissions == {"read", "write", "execute"}
StoragePaths == {"", "auth.json"}

VARIABLES
    clock,          \* time.Now()
    storagePath,    \* s.storagePath ("": no persistence)
    pairingCodes,   \* s.pairingCodes : code -> PairingCode
    tokens,         \* s.tokens : token value -> Token
    deviceTokens,   \* s.deviceTokens : deviceID -> token value
    nextToken,      \* number of values generateSecureToken has returned
    spinning,       \* GeneratePairingCode is in its uniqueness loop, holding s.mu
    saving,         \* SaveState has copied `state` and not yet written it
    disk,           \* the document at storagePath
    result,         \* what the last call returned, and the keys it removed
    log,            \* history: codes redeemed or purged since their issue, tokens swept
    registers,      \* whether the embedding program calls OnPairingComplete at all
    onPairingComplete,  \* s.onPairingComplete # nil
    observers,      \* the tasks running s.onPairingComplete
    mu,             \* s.mu, where calls are taken apart: its writer and its readers
    calls           \* there: what each goroutine is calling and how far it has got

vars == <<clock, storagePath, pairingCodes, tokens, deviceTokens, nextToken, spinning,
          saving, disk, result, log, registers, onPairingComplete, observers, mu,
          calls>>

\* What an operation that neither registers nor notifies leaves alone.
observerState == <<registers, onPairingComplete, observers>>

Threads == 1..NumThreads
NoSnap == [taken |-> FALSE]
Idle == [op |-> "", code |-> 0, dev |-> 0, tok |-> 0, pc |-> "idle", snap |-> NoSnap]
Unlocked == [writer |-> 0, readers |-> {}]
\* Where a call is one step, nobody is seen between its Lock and its Unlock.
lockState == <<mu, calls>>

(* ---- time.Time comparisons --------------------------------------------- *)
After(t, u) == t > u
Before(t, u) == t < u

(* ---- Go map helpers ----------------------------------------------------- *)
Delete(m, k) == [x \in DOMAIN m \ {k} |-> m[x]]
DeleteAll(m, ks) == [x \in DOMAIN m \ ks |-> m[x]]
Put(m, k, v) == [x \in DOMAIN m \cup {k} |-> IF x = k THEN v ELSE m[x]]
Empty == [x \in {} |-> 0]

(* ---- errors -------------------------------------------------------------- *)
OK == "ok"
ErrInvalidCode == "INVALID_CODE"
ErrCodeExpired == "CODE_EXPIRED"
ErrCodeAlreadyUsed == "CODE_USED"
ErrInvalidToken == "INVALID_TOKEN"
ErrTokenExpired == "TOKEN_EXPIRED"
ErrGenerate == "GENERATION_FAILED"

\* op: the method; err: its error (OK for nil); code, dev, tok: its arguments and
\* the value it returned (0: none); gone: the token keys the call deleted; old:
\* those of them createTokenLocked deleted for the device's previous token; list:
\* the tokens ListActiveDevices returned; purged: the codes the purge of
\* GeneratePairingCode deleted.
Result(op, err, code, dev, tok, gone) ==
    [op |-> op, err |-> err, code |-> code, dev |-> dev, tok |-> tok, gone |-> gone,
     old |-> {}, list |-> {}, purged |-> {}]

NoDoc == [present |-> FALSE]
NoSave == [pending |-> FALSE]
NoLog == [redeemed |-> {}, purged |-> {}, swept |-> {}]

\* The device identifiers, the code values and the cap on issued token values in
\* the configuration explored.
DevicesInPlay ==
    1..(IF registers THEN NumDevicesObserved
        ELSE IF storagePath = "" THEN NumDevices ELSE NumDevicesStored)
CodesInPlay ==
    1..(IF registers THEN NumCodesObserved
        ELSE IF storagePath = "" THEN NumCodes ELSE NumCodesStored)
IssueBound ==
    IF registers THEN MaxTokensObserved
    ELSE IF storagePath = "" THEN MaxTokens ELSE MaxTokensStored

\* running: the observer tasks that have not returned; awaited: whether the call
\* that started one waits for it, s.mu held (a go statement does not wait);
\* last: the arguments the most recent of the running tasks was started with.
NoArgs == [dev |-> 0, name |-> ""]
NoObservers == [running |-> 0, awaited |-> FALSE, last |-> NoArgs]

\* s.mu is held by a call that has not returned.
locked == spinning \/ observers.awaited

Init ==
    /\ clock = 0
    /\ storagePath \in StoragePaths
    /\ registers \in IF storagePath = "" THEN BOOLEAN ELSE {FALSE}
    /\ onPairingComplete = FALSE
    /\ observers = NoObservers
    /\ mu = Unlocked
    /\ calls = [t \in Threads |-> Idle]
    /\ pairingCodes = Empty
    /\ tokens = Empty
    /\ deviceTokens = Empty
    /\ nextToken = 0
    /\ spinning = FALSE
    /\ saving = NoSave
    /\ disk = NoDoc
    /\ result = Result("NewService", OK, 0, 0, 0, {})
    /\ log = NoLog

(* ---- expiry tests ------------------------------------------------------ *)
\* Faulty variant: the expiry of a code is never looked at.
codeExpired_never(now, pc) == FALSE

\* time.Now().After(pc.ExpiresAt)
codeExpired(now, pc) == After(now, pc.ExpiresAt)

\* Faulty variants: the expiry of a token is never looked at; a token is given
\* one more instant.
tokenExpired_never(now, tok) == FALSE
tokenExpired_late(now, tok) == After(now, tok.ExpiresAt + 1)

\* time.Now().After(token.ExpiresAt)
tokenExpired(now, tok) == After(now, tok.ExpiresAt)

\* time.Now().Before(token.ExpiresAt): the test of the ceiling count, of
\* ListActiveDevices, of SaveState and of LoadState
tokenActive(now, tok) == Before(now, tok.ExpiresAt)

(* ---- GeneratePairingCode ------------------------------------------------- *)
\* The codes cleanupExpiredCodesLocked deletes.
staleCodes(codes, now) ==
    {c \in DOMAIN codes : After(now, codes[c].ExpiresAt) \/ codes[c].Used}

\* Faulty variant: the purge deletes nothing.
cleanupExpiredCodesLocked_keeps(codes, now) == codes

cleanupExpiredCodesLocked(codes, now) == DeleteAll(codes, staleCodes(codes, now))

NewPairingCode(now) ==
    [CreatedAt |-> now, ExpiresAt |-> now + codeExpiry, DeviceID |-> 0, Used |-> FALSE]

\* Faulty variant: no uniqueness loop, the first draw is taken.
FreeCodes_anyDraw(codes) == CodesInPlay

\* The values generateNumericCode can return that leave the uniqueness loop.
FreeCodes(codes) == {c \in CodesInPlay : c \notin DOMAIN codes}

GeneratePairingCode ==
    /\ ~locked
    /\ LET now == clock
           stale == staleCodes(pairingCodes, now)
           cleaned == cleanupExpiredCodesLocked(pairingCodes, now)
       IN  \/ \E code \in FreeCodes(cleaned) :
                /\ pairingCodes' = Put(cleaned, code, NewPairingCode(now))
                /\ result' = [Result("IssueCode", OK, code, 0, 0, {})
                                EXCEPT !.purged = stale]
                /\ log' = [log EXCEPT !.purged = (@ \cup stale) \ {code},
                                      !.redeemed = @ \ {code}]
                /\ UNCHANGED spinning
           \/ \* rand.Read fails, on the first draw or on a retry
              /\ pairingCodes' = cleaned
              /\ result' = [Result("IssueCode", ErrGenerate, 0, 0, 0, {})
                              EXCEPT !.purged = stale]
              /\ log' = [log EXCEPT !.purged = @ \cup stale]
              /\ UNCHANGED spinning
           \/ \* every value is taken: the loop draws again and again, s.mu held
              /\ FreeCodes(cleaned) = {}
              /\ pairingCodes' = cleaned
              /\ spinning' = TRUE
              /\ result' = [Result("IssueCode", "spinning", 0, 0, 0, {})
                              EXCEPT !.purged = stale]
              /\ log' = [log EXCEPT !.purged = @ \cup stale]
    /\ UNCHANGED observerState
    /\ UNCHANGED lockState
    /\ UNCHANGED <<clock, storagePath, tokens, deviceTokens, nextToken, saving, disk>>

\* The only way out of the uniqueness loop when no value is free.
GenerateRetryFails ==
    /\ spinning
    /\ spinning' = FALSE
    /\ result' = Result("IssueCode", ErrGenerate, 0, 0, 0, {})
    /\ UNCHANGED observerState
    /\ UNCHANGED lockState
    /\ UNCHANGED <<clock, storagePath, pairingCodes, tokens, deviceTokens, nextToken,
                   saving, disk, log>>

(* ---- ValidatePairingCode and what it calls ------------------------------- *)
activeCount(toks, now) == Cardinality({k \in DOMAIN toks : tokenActive(now, toks[k])})

\* Faulty variant: the comparison of removeOldestTokenLocked reversed, so that the
\* most recently used entry wins.
OldestKeys_newest(toks) ==
    {k \in DOMAIN toks : \A j \in DOMAIN toks :
        ~After(toks[j].LastUsedAt, toks[k].LastUsedAt)}

\* The keys removeOldestTokenLocked's loop can end on: a strictly earlier
\* LastUsedAt replaces the candidate, so any entry of minimal LastUsedAt can win,
\* depending on the iteration order of the map.
OldestKeys(toks) ==
    {k \in DOMAIN toks : \A j \in DOMAIN toks :
        ~Before(toks[j].LastUsedAt, toks[k].LastUsedAt)}

\* The ceiling check of ValidatePairingCode: the sets of keys it can remove.
EvictionChoices(toks, now) ==
    IF activeCount(toks, now) >= maxActiveDevices /\ DOMAIN toks # {}
    THEN {{k} : k \in OldestKeys(toks)}
    ELSE {{}}

\* removeOldestTokenLocked's delete(s.deviceTokens, oldestToken.DeviceID)
removeOldestIndex(idx, toks, victims) == DeleteAll(idx, {toks[k].DeviceID : k \in victims})

\* Faulty variant: a redeemed code is left in the map, unmarked.
consumeCode_kept(codes, code) == codes

\* pc.Used = true; pc.DeviceID = deviceID; delete(s.pairingCodes, code)
consumeCode(codes, code) == Delete(codes, code)

\* Faulty variant: the device's previous token is not deleted.
superseded_none(toks, idx, deviceID) == {}

\* createTokenLocked, first statement: the keys delete(s.tokens, oldToken) removes
superseded(toks, idx, deviceID) ==
    IF deviceID \in DOMAIN idx THEN {idx[deviceID]} \cap DOMAIN toks ELSE {}

\* Faulty variant: the expiry is set to now, the token lifetime forgotten.
NewToken_noLifetime(value, deviceID, deviceName, now) ==
    [Value |-> value, DeviceID |-> deviceID, DeviceName |-> deviceName,
     CreatedAt |-> now, ExpiresAt |-> now, LastUsedAt |-> now,
     Permissions |-> Permissions]

\* createTokenLocked: the Token literal
NewToken(value, deviceID, deviceName, now) ==
    [Value |-> value, DeviceID |-> deviceID, DeviceName |-> deviceName,
     CreatedAt |-> now, ExpiresAt |-> now + tokenExpiry, LastUsedAt |-> now,
     Permissions |-> Permissions]

\* One more observer task, up to the number told apart.
OneMore(n) == IF n < MaxObservers THEN n + 1 ELSE MaxObservers

\* Faulty variant: the observer is called in place, by the caller that holds s.mu.
notify_inline(obs, callback, deviceID, deviceName) ==
    IF callback
    THEN [running |-> OneMore(obs.running), awaited |-> TRUE,
          last |-> [dev |-> deviceID, name |-> deviceName]]
    ELSE obs

\* Faulty variant: the observer is started once by the service and once more by
\* a wrapper.
notify_twice(obs, callback, deviceID, deviceName) ==
    IF callback
    THEN [obs EXCEPT !.running = OneMore(OneMore(@)),
                     !.last = [dev |-> deviceID, name |-> deviceName]]
    ELSE obs

\* if s.onPairingComplete != nil { go s.onPairingComplete(deviceID, deviceName) }
notify(obs, callback, deviceID, deviceName) ==
    IF callback
    THEN [obs EXCEPT !.running = OneMore(@),
                     !.last = [dev |-> deviceID, name |-> deviceName]]
    ELSE obs

ValidatePairingCode(code, deviceID, deviceName) ==
    /\ ~locked
    /\ UNCHANGED <<clock, storagePath, spinning, saving, disk, registers,
                   onPairingComplete>>
    /\ UNCHANGED lockState
    /\ LET now == clock IN
       IF code \notin DOMAIN pairingCodes THEN
            /\ result' = Result("Redeem", ErrInvalidCode, code, deviceID, 0, {})
            /\ UNCHANGED <<pairingCodes, tokens, deviceTokens, nextToken, log, observers>>
       ELSE IF codeExpired(now, pairingCodes[code]) THEN
            /\ pairingCodes' = Delete(pairingCodes, code)
            /\ result' = Result("Redeem", ErrCodeExpired, code, deviceID, 0, {})
            /\ UNCHANGED <<tokens, deviceTokens, nextToken, log, observers>>
       ELSE IF pairingCodes[code].Used THEN
            /\ result' = Result("Redeem", ErrCodeAlreadyUsed, code, deviceID, 0, {})
            /\ UNCHANGED <<pairingCodes, tokens, deviceTokens, nextToken, log, observers>>
       ELSE \E victims \in EvictionChoices(tokens, now) :
            LET toks1 == DeleteAll(tokens, victims)
                idx1 == removeOldestIndex(deviceTokens, tokens, victims)
                old == superseded(toks1, idx1, deviceID)
                toks2 == DeleteAll(toks1, old)
            IN  /\ pairingCodes' = consumeCode(pairingCodes, code)
                /\ \/ \* generateSecureToken fails
                      /\ tokens' = toks2
                      /\ deviceTokens' = idx1
                      /\ result' = [Result("Redeem", ErrGenerate, code, deviceID, 0,
                                           victims \cup old) EXCEPT !.old = old]
                      /\ UNCHANGED <<nextToken, log, observers>>
                   \/ \* generateSecureToken returns a value not seen before
                      /\ nextToken < IssueBound
                      /\ LET value == nextToken + 1 IN
                            /\ nextToken' = value
                            /\ tokens' = Put(toks2, value,
                                    NewToken(value, deviceID, deviceName, now))
                            /\ deviceTokens' = Put(idx1, deviceID, value)
                            /\ result' = [Result("Redeem", OK, code, deviceID, value,
                                                 victims \cup old) EXCEPT !.old = old]
                            /\ log' = [log EXCEPT !.redeemed = @ \cup {code}]
                            /\ observers' = notify(observers, onPairingComplete, deviceID,
                                                 deviceName)

Redeem == \E code \in CodesInPlay, deviceID \in DevicesInPlay, deviceName \in DeviceNames :
            ValidatePairingCode(code, deviceID, deviceName)

(* ---- ValidateToken, RefreshToken ----------------------------------------- *)
\* Faulty variant: a validation that renews the credential as a refresh does.
touch_renews(tok, now) ==
    [tok EXCEPT !.ExpiresAt = now + tokenExpiry, !.LastUsedAt = now]

\* token.LastUsedAt = time.Now()
touch(tok, now) == [tok EXCEPT !.LastUsedAt = now]

\* Faulty variant: a refresh that records the use and extends nothing.
extend_nothing(tok, now) == [tok EXCEPT !.LastUsedAt = now]

\* token.ExpiresAt = time.Now().Add(s.tokenExpiry); token.LastUsedAt = time.Now()
extend(tok, now) == [tok EXCEPT !.ExpiresAt = now + tokenExpiry, !.LastUsedAt = now]

\* SaveState copied pointers: a write to a Token it copied is a write to the
\* Token its `state` names.
aliased(sv, value, tok) ==
    IF sv.pending /\ value \in DOMAIN sv.Tokens
    THEN [sv EXCEPT !.Tokens[value] = tok]
    ELSE sv

ValidateToken(tokenValue) ==
    /\ ~locked
    /\ UNCHANGED observerState
    /\ UNCHANGED lockState
    /\ UNCHANGED <<clock, storagePath, pairingCodes, nextToken, spinning, disk, log>>
    /\ LET now == clock IN
       IF tokenValue \notin DOMAIN tokens THEN
            /\ result' = Result("Validate", ErrInvalidToken, 0, 0, tokenValue, {})
            /\ UNCHANGED <<tokens, deviceTokens, saving>>
       ELSE IF tokenExpired(now, tokens[tokenValue]) THEN
            /\ tokens' = Delete(tokens, tokenValue)
            /\ deviceTokens' = Delete(deviceTokens, tokens[tokenValue].DeviceID)
            /\ result' = Result("Validate", ErrTokenExpired, 0, 0, tokenValue,
                                {tokenValue})
            /\ UNCHANGED saving
       ELSE
            /\ tokens' = [tokens EXCEPT ![tokenValue] = touch(@, now)]
            /\ saving' = aliased(saving, tokenValue, touch(tokens[tokenValue], now))
            /\ result' = Result("Validate", OK, 0, 0, tokenValue, {})
            /\ UNCHANGED deviceTokens

Validate == \E tokenValue \in TokenValues : ValidateToken(tokenValue)

\* Faulty variant: a refresh that reports an expired token and leaves it stored.
RefreshToken_keeps(tokenValue) ==
    /\ ~locked
    /\ UNCHANGED observerState
    /\ UNCHANGED lockState
    /\ UNCHANGED <<clock, storagePath, pairingCodes, nextToken, spinning, disk, log>>
    /\ LET now == clock IN
       IF tokenValue \notin DOMAIN tokens THEN
            /\ result' = Result("Refresh", ErrInvalidToken, 0, 0, tokenValue, {})
            /\ UNCHANGED <<tokens, deviceTokens, saving>>
       ELSE IF tokenExpired(now, tokens[tokenValue]) THEN
            /\ result' = Result("Refresh", ErrTokenExpired, 0, 0, tokenValue, {})
            /\ UNCHANGED <<tokens, deviceTokens, saving>>
       ELSE
            /\ tokens' = [tokens EXCEPT ![tokenValue] = extend(@, now)]
            /\ saving' = aliased(saving, tokenValue, extend(tokens[tokenValue], now))
            /\ result' = Result("Refresh", OK, 0, 0, tokenValue, {})
            /\ UNCHANGED deviceTokens

RefreshToken(tokenValue) ==
    /\ ~locked
    /\ UNCHANGED observerState
    /\ UNCHANGED lockState
    /\ UNCHANGED <<clock, storagePath, pairingCodes, nextToken, spinning, disk, log>>
    /\ LET now == clock IN
       IF tokenValue \notin DOMAIN tokens THEN
            /\ result' = Result("Refresh", ErrInvalidToken, 0, 0, tokenValue, {})
            /\ UNCHANGED <<tokens, deviceTokens, saving>>
       ELSE IF tokenExpired(now, tokens[tokenValue]) THEN
            /\ tokens' = Delete(tokens, tokenValue)
            /\ deviceTokens' = Delete(deviceTokens, tokens[tokenValue].DeviceID)
            /\ result' = Result("Refresh", ErrTokenExpired, 0, 0, tokenValue,
                                {tokenValue})
            /\ UNCHANGED saving
       ELSE
            /\ tokens' = [tokens EXCEPT ![tokenValue] = extend(@, now)]
            /\ saving' = aliased(saving, tokenValue, extend(tokens[tokenValue], now))
            /\ result' = Result("Refresh", OK, 0, 0, tokenValue, {})
            /\ UNCHANGED deviceTokens

Refresh == \E tokenValue \in TokenValues : RefreshToken(tokenValue)

(* ---- RevokeToken, RevokeDevice ------------------------------------------- *)
\* Faulty variant: a revocation that forgets the index row.
RevokeToken_keepsRow(tokenValue) ==
    /\ ~locked
    /\ UNCHANGED observerState
    /\ UNCHANGED lockState
    /\ UNCHANGED <<clock, storagePath, pairingCodes, nextToken, spinning, saving, disk,
                   log>>
    /\ IF tokenValue \notin DOMAIN tokens THEN
            /\ result' = Result("Revoke", "false", 0, 0, tokenValue, {})
            /\ UNCHANGED <<tokens, deviceTokens>>
       ELSE
            /\ tokens' = Delete(tokens, tokenValue)
            /\ deviceTokens' = deviceTokens
            /\ result' = Result("Revoke", "true", 0, 0, tokenValue, {tokenValue})

RevokeToken(tokenValue) ==
    /\ ~locked
    /\ UNCHANGED observerState
    /\ UNCHANGED lockState
    /\ UNCHANGED <<clock, storagePath, pairingCodes, nextToken, spinning, saving, disk,
                   log>>
    /\ IF tokenValue \notin DOMAIN tokens THEN
            /\ result' = Result("Revoke", "false", 0, 0, tokenValue, {})
            /\ UNCHANGED <<tokens, deviceTokens>>
       ELSE
            /\ tokens' = Delete(tokens, tokenValue)
            /\ deviceTokens' = Delete(deviceTokens, tokens[tokenValue].DeviceID)
            /\ result' = Result("Revoke", "true", 0, 0, tokenValue, {tokenValue})

Revoke == \E tokenValue \in TokenValues : RevokeToken(tokenValue)

RevokeDevice(deviceID) ==
    /\ ~locked
    /\ UNCHANGED observerState
    /\ UNCHANGED lockState
    /\ UNCHANGED <<clock, storagePath, pairingCodes, nextToken, spinning, saving, disk,
                   log>>
    /\ IF deviceID \notin DOMAIN deviceTokens THEN
            /\ result' = Result("RevokeDevice", "false", 0, deviceID, 0, {})
            /\ UNCHANGED <<tokens, deviceTokens>>
       ELSE LET tokenValue == deviceTokens[deviceID] IN
            /\ tokens' = Delete(tokens, tokenValue)
            /\ deviceTokens' = Delete(deviceTokens, deviceID)
            /\ result' = Result("RevokeDevice", "true", 0, deviceID, 0,
                                {tokenValue} \cap DOMAIN tokens)

RevokeByDevice == \E deviceID \in DevicesInPlay : RevokeDevice(deviceID)

(* ---- ListActiveDevices ----------------------------------------------------- *)
\* Faulty variant: every stored token is returned.
activeDevices_all(toks, now) == {toks[k] : k \in DOMAIN toks}

\* The tokens the loop of ListActiveDevices appends.
activeDevices(toks, now) ==
    {toks[k] : k \in {x \in DOMAIN toks : tokenActive(now, toks[x])}}

ListActiveDevices ==
    /\ ~locked
    /\ result' = [Result("ListActive", OK, 0, 0, 0, {})
                    EXCEPT !.list = activeDevices(tokens, clock)]
    /\ UNCHANGED observerState
    /\ UNCHANGED lockState
    /\ UNCHANGED <<clock, storagePath, pairingCodes, tokens, deviceTokens, nextToken,
                   spinning, saving, disk, log>>

(* ---- GetActivePairingCode ----------------------------------------------------- *)
\* The codes the loop of GetActivePairingCode can return: the first one, in the
\* iteration order of the map, with !pc.Used && now.Before(pc.ExpiresAt).
activeCodes(codes, now) ==
    {c \in DOMAIN codes : ~codes[c].Used /\ Before(now, codes[c].ExpiresAt)}

GetActivePairingCode ==
    /\ ~locked
    /\ \E c \in IF activeCodes(pairingCodes, clock) = {} THEN {0}
                 ELSE activeCodes(pairingCodes, clock) :
          result' = Result("PeekActiveCode", OK, c, 0, 0, {})
    /\ UNCHANGED observerState
    /\ UNCHANGED lockState
    /\ UNCHANGED <<clock, storagePath, pairingCodes, tokens, deviceTokens, nextToken,
                   spinning, saving, disk, log>>

(* ---- cleanupExpired: one wake of the ticker loop -------------------------- *)
\* The tokens the second loop of cleanupExpired deletes.
sweptTokens(toks, now) == {k \in DOMAIN toks : After(now, toks[k].ExpiresAt)}

cleanupExpired ==
    /\ ~locked
    /\ LET now == clock
           stale == staleCodes(pairingCodes, now)
           dead == sweptTokens(tokens, now)
       IN  /\ pairingCodes' = DeleteAll(pairingCodes, stale)
           /\ tokens' = DeleteAll(tokens, dead)
           /\ deviceTokens' = DeleteAll(deviceTokens, {tokens[k].DeviceID : k \in dead})
           /\ result' = Result("Sweep", OK, 0, 0, 0, dead)
           /\ log' = [log EXCEPT !.purged = @ \cup stale, !.swept = @ \cup dead]
    /\ UNCHANGED observerState
    /\ UNCHANGED lockState
    /\ UNCHANGED <<clock, storagePath, nextToken, spinning, saving, disk>>

(* ---- SaveState ------------------------------------------------------------ *)
\* if s.storagePath == "" { return nil }
SaveNoPath ==
    /\ storagePath = ""
    /\ result' = Result("Save", OK, 0, 0, 0, {})
    /\ UNCHANGED observerState
    /\ UNCHANGED lockState
    /\ UNCHANGED <<clock, storagePath, pairingCodes, tokens, deviceTokens, nextToken,
                   spinning, saving, disk, log>>

\* Under s.mu.RLock: state.Tokens[k] = v copies the pointer v, not the Token.
copiedTokens(toks, now) ==
    [k \in {x \in DOMAIN toks : tokenActive(now, toks[x])} |-> toks[k]]
copiedIndex(idx, kept) ==
    [d \in {x \in DOMAIN idx : idx[x] \in DOMAIN kept} |-> idx[d]]

\* Faulty variant: the copy drops from the live table what it does not copy.
SaveCopy_sweeps ==
    /\ storagePath # ""
    /\ ~locked
    /\ ~saving.pending
    /\ LET kept == copiedTokens(tokens, clock) IN
          /\ saving' = [pending |-> TRUE, Tokens |-> kept,
                        DeviceTokens |-> copiedIndex(deviceTokens, kept)]
          /\ tokens' = kept
    /\ result' = Result("SaveCopy", OK, 0, 0, 0, {})
    /\ UNCHANGED observerState
    /\ UNCHANGED lockState
    /\ UNCHANGED <<clock, storagePath, pairingCodes, deviceTokens, nextToken,
                   spinning, disk, log>>

SaveCopy ==
    /\ storagePath # ""
    /\ ~locked
    /\ ~saving.pending
    /\ LET kept == copiedTokens(tokens, clock) IN
       saving' = [pending |-> TRUE, Tokens |-> kept,
                  DeviceTokens |-> copiedIndex(deviceTokens, kept)]
    /\ result' = Result("SaveCopy", OK, 0, 0, 0, {})
    /\ UNCHANGED observerState
    /\ UNCHANGED lockState
    /\ UNCHANGED <<clock, storagePath, pairingCodes, tokens, deviceTokens, nextToken,
                   spinning, disk, log>>

\* encoding/json on a Token: one member per field, under the name of its json
\* tag; a time.Time becomes its RFC 3339 text with nanoseconds, the same instant.
\* Faulty variant: last_used_at is not written (a `json:"-"` tag).
MarshalToken_noLastUsed(tok) ==
    [token |-> tok.Value, device_id |-> tok.DeviceID, device_name |-> tok.DeviceName,
     created_at |-> tok.CreatedAt, expires_at |-> tok.ExpiresAt, last_used_at |-> 0,
     permissions |-> tok.Permissions]

MarshalToken(tok) ==
    [token |-> tok.Value, device_id |-> tok.DeviceID, device_name |-> tok.DeviceName,
     created_at |-> tok.CreatedAt, expires_at |-> tok.ExpiresAt,
     last_used_at |-> tok.LastUsedAt, permissions |-> tok.Permissions]

\* json.MarshalIndent(state): persistedState without saved_at, which LoadState
\* only logs.
Marshal(state) ==
    [present |-> TRUE,
     tokens |-> [k \in DOMAIN state.Tokens |-> MarshalToken(state.Tokens[k])],
     device_tokens |-> state.DeviceTokens]

\* After RUnlock: json.MarshalIndent follows the copied pointers, os.WriteFile
\* replaces the document.  MkdirAll, the encoder or the write can fail.
SaveWrite ==
    /\ saving.pending
    /\ saving' = NoSave
    /\ \/ /\ disk' = Marshal(saving)
          /\ result' = Result("Save", OK, 0, 0, 0, {})
       \/ /\ disk' = disk
          /\ result' = Result("Save", "IO_FAILURE", 0, 0, 0, {})
    /\ UNCHANGED observerState
    /\ UNCHANGED lockState
    /\ UNCHANGED <<clock, storagePath, pairingCodes, tokens, deviceTokens, nextToken,
                   spinning, log>>

(* ---- NewService + LoadState: the process starts again --------------------- *)
UnmarshalToken(obj) ==
    [Value |-> obj.token, DeviceID |-> obj.device_id, DeviceName |-> obj.device_name,
     CreatedAt |-> obj.created_at, ExpiresAt |-> obj.expires_at,
     LastUsedAt |-> obj.last_used_at, Permissions |-> obj.permissions]

\* json.Unmarshal(data, &state)
Unmarshal(doc) ==
    [Tokens |-> [k \in DOMAIN doc.tokens |-> UnmarshalToken(doc.tokens[k])],
     DeviceTokens |-> doc.device_tokens]

\* The two loops of LoadState over the decoded state.
loadedTokens(state, now) ==
    [k \in {x \in DOMAIN state.Tokens : tokenActive(now, state.Tokens[x])}
        |-> state.Tokens[k]]
\* Faulty variant: every index row of the document is imported.
loadedIndex_all(state, kept) == state.DeviceTokens

loadedIndex(state, kept) ==
    [d \in {x \in DOMAIN state.DeviceTokens : state.DeviceTokens[x] \in DOMAIN kept}
        |-> state.DeviceTokens[d]]

NewService ==
    /\ pairingCodes' = Empty
    /\ spinning' = FALSE
    /\ onPairingComplete' = FALSE
    /\ observers' = NoObservers
    /\ saving' = NoSave
    /\ log' = NoLog
    /\ \/ \* LoadState decodes the document
          /\ storagePath # ""
          /\ disk.present
          /\ LET state == Unmarshal(disk)
                 kept == loadedTokens(state, clock)
             IN /\ tokens' = kept
                /\ deviceTokens' = loadedIndex(state, kept)
          /\ result' = Result("NewService", OK, 0, 0, 0, {})
       \/ \* the document cannot be read or decoded: the service starts empty
          /\ storagePath # ""
          /\ disk.present
          /\ tokens' = Empty
          /\ deviceTokens' = Empty
          /\ result' = Result("NewService", "LOAD_FAILED", 0, 0, 0, {})
       \/ \* no storage path, or no document at it
          /\ storagePath = "" \/ ~disk.present
          /\ tokens' = Empty
          /\ deviceTokens' = Empty
          /\ result' = Result("NewService", OK, 0, 0, 0, {})
    /\ UNCHANGED <<clock, storagePath, nextToken, disk, registers>>
    /\ UNCHANGED lockState

(* ---- OnPairingComplete and the observer ------------------------------------ *)
\* The embedding program registers its observer when it has constructed the
\* service; an observer may register another, or none, when it calls back.
OnPairingComplete(callback) ==
    /\ registers
    /\ result.op = "NewService" \/ observers.running > 0
    /\ ~locked
    /\ onPairingComplete' = callback
    /\ result' = Result("OnPairingComplete", OK, 0, 0, 0, {})
    /\ UNCHANGED <<clock, storagePath, pairingCodes, tokens, deviceTokens, nextToken,
                   spinning, saving, disk, log, registers, observers>>
    /\ UNCHANGED lockState

Register == \E callback \in BOOLEAN : OnPairingComplete(callback)

\* An observer task ends, by returning or by failing on its own; one that never
\* returns stays.  What it calls of the service meanwhile are the other actions.
ObserverReturns ==
    /\ observers.running > 0
    /\ observers' = IF observers.running = 1 THEN NoObservers
                     ELSE [observers EXCEPT !.running = @ - 1, !.awaited = FALSE]
    /\ result' = Result("ObserverReturns", OK, 0, 0, 0, {})
    /\ UNCHANGED <<clock, storagePath, pairingCodes, tokens, deviceTokens, nextToken,
                   spinning, saving, disk, log, registers, onPairingComplete>>
    /\ UNCHANGED lockState

Tick ==
    /\ clock < MaxTime
    /\ clock' = clock + 1
    /\ result' = Result("Tick", OK, 0, 0, 0, {})
    /\ UNCHANGED observerState
    /\ UNCHANGED lockState
    /\ UNCHANGED <<storagePath, pairingCodes, tokens, deviceTokens, nextToken, spinning,
                   saving, disk, log>>

Next ==
    \/ GeneratePairingCode
    \/ GenerateRetryFails
    \/ Redeem
    \/ Validate
    \/ Refresh
    \/ Revoke
    \/ RevokeByDevice
    \/ ListActiveDevices
    \/ GetActivePairingCode
    \/ cleanupExpired
    \/ SaveNoPath
    \/ SaveCopy
    \/ SaveWrite
    \/ NewService
    \/ Register
    \/ ObserverReturns
    \/ Tick

Spec == Init /\ [][Next]_vars

\* The ticker of cleanupExpired fires every ten minutes and the wake takes s.mu
\* when its holder releases it, however often others take it in between.
FairSpec == Spec /\ SF_vars(cleanupExpired)

(* ======================================================================== *)
(* The calls taken apart: s.mu, and the read and the write of each call       *)
(* ======================================================================== *)
\* The three maps and the token source, as one value a call reads and writes.
Tables ==
    [codes |-> pairingCodes, toks |-> tokens, idx |-> deviceTokens, next |-> nextToken]

\* What each method makes of the tables it read, at the instant it read: the
\* bodies of the methods above, as functions to the set of their outcomes.
IssueEffect(st, now) ==
    LET cleaned == cleanupExpiredCodesLocked(st.codes, now) IN
    {[st EXCEPT !.codes = Put(cleaned, c, NewPairingCode(now))] : c \in FreeCodes(cleaned)}
        \cup {[st EXCEPT !.codes = cleaned]}

RedeemEffect(st, code, deviceID, deviceName, now) ==
    IF code \notin DOMAIN st.codes THEN {st}
    ELSE IF codeExpired(now, st.codes[code])
    THEN {[st EXCEPT !.codes = Delete(@, code)]}
    ELSE IF st.codes[code].Used THEN {st}
    ELSE UNION {
        LET toks1 == DeleteAll(st.toks, victims)
            idx1 == removeOldestIndex(st.idx, st.toks, victims)
            toks2 == DeleteAll(toks1, superseded(toks1, idx1, deviceID))
            failed == [st EXCEPT !.codes = consumeCode(@, code), !.toks = toks2,
                                 !.idx = idx1]
            value == st.next + 1
        IN  {failed} \cup
            IF st.next < IssueBound
            THEN {[failed EXCEPT
                      !.toks = Put(toks2, value,
                                   NewToken(value, deviceID, deviceName, now)),
                      !.idx = Put(idx1, deviceID, value),
                      !.next = value]}
            ELSE {}
        : victims \in EvictionChoices(st.toks, now)}

ValidateEffect(st, value, now) ==
    IF value \notin DOMAIN st.toks THEN {st}
    ELSE IF tokenExpired(now, st.toks[value])
    THEN {[st EXCEPT !.toks = Delete(@, value),
                     !.idx = Delete(@, st.toks[value].DeviceID)]}
    ELSE {[st EXCEPT !.toks[value] = touch(@, now)]}

RefreshEffect(st, value, now) ==
    IF value \notin DOMAIN st.toks THEN {st}
    ELSE IF tokenExpired(now, st.toks[value])
    THEN {[st EXCEPT !.toks = Delete(@, value),
                     !.idx = Delete(@, st.toks[value].DeviceID)]}
    ELSE {[st EXCEPT !.toks[value] = extend(@, now)]}

RevokeEffect(st, value) ==
    IF value \notin DOMAIN st.toks THEN {st}
    ELSE {[st EXCEPT !.toks = Delete(@, value),
                     !.idx = Delete(@, st.toks[value].DeviceID)]}

RevokeDeviceEffect(st, deviceID) ==
    IF deviceID \notin DOMAIN st.idx THEN {st}
    ELSE {[st EXCEPT !.toks = Delete(@, st.idx[deviceID]),
                     !.idx = Delete(@, deviceID)]}

SweepEffect(st, now) ==
    LET dead == sweptTokens(st.toks, now) IN
    {[st EXCEPT !.codes = DeleteAll(@, staleCodes(st.codes, now)),
                !.toks = DeleteAll(@, dead),
                !.idx = DeleteAll(@, {st.toks[k].DeviceID : k \in dead})]}

Effect(call, st, now) ==
    CASE call.op = "IssueCode" -> IssueEffect(st, now)
      [] call.op = "Redeem" -> RedeemEffect(st, call.code, call.dev, "Pixel 7", now)
      [] call.op = "Validate" -> ValidateEffect(st, call.tok, now)
      [] call.op = "Refresh" -> RefreshEffect(st, call.tok, now)
      [] call.op = "Revoke" -> RevokeEffect(st, call.tok)
      [] call.op = "RevokeDevice" -> RevokeDeviceEffect(st, call.dev)
      [] call.op = "Sweep" -> SweepEffect(st, now)
      [] OTHER -> {st}

\* The methods that only read: ListActiveDevices, GetActivePairingCode and the
\* copy of SaveState.
Readers == {"ListActive", "PeekActiveCode", "SaveCopy"}
Writers == {"IssueCode", "Redeem", "Validate", "Refresh", "Revoke", "RevokeDevice", "Sweep"}

\* Faulty variant: ValidateToken, which looks like a read, takes the read lock.
Mode_sharedValidate(op) == IF op \in Readers \cup {"Validate"} THEN "RLock" ELSE "Lock"

\* s.mu.RLock() or s.mu.Lock(), the first statement of each method.
Mode(op) == IF op \in Readers THEN "RLock" ELSE "Lock"

Request(op, code, dev, tok) ==
    [op |-> op, code |-> code, dev |-> dev, tok |-> tok, pc |-> "locked", snap |-> NoSnap]

Requests ==
    {Request(op, 0, 0, 0) : op \in Readers \cup {"IssueCode", "Sweep"}}
        \cup {Request("Redeem", c, d, 0) : c \in CodesInPlay, d \in DevicesInPlay}
        \cup {Request(op, 0, 0, v) : op \in {"Validate", "Refresh", "Revoke"},
                                     v \in 1..IssueBound}
        \cup {Request("RevokeDevice", 0, d, 0) : d \in DevicesInPlay}

\* A goroutine calls a method: Lock() returns when nobody holds the mutex,
\* RLock() when no writer does.
Acquire(t, call) ==
    /\ calls[t].pc = "idle"
    /\ mu.writer = 0
    /\ IF Mode(call.op) = "Lock"
       THEN mu.readers = {} /\ mu' = [mu EXCEPT !.writer = t]
       ELSE mu' = [mu EXCEPT !.readers = @ \cup {t}]
    /\ calls' = [calls EXCEPT ![t] = call]
    /\ UNCHANGED <<clock, storagePath, pairingCodes, tokens, deviceTokens, nextToken,
                   spinning, saving, disk, result, log, observerState>>

\* The method reads the clock and the maps ...
Read(t) ==
    /\ calls[t].pc = "locked"
    /\ calls' = [calls EXCEPT ![t].pc = "read",
                              ![t].snap = [taken |-> TRUE, st |-> Tables, now |-> clock]]
    /\ UNCHANGED <<clock, storagePath, pairingCodes, tokens, deviceTokens, nextToken,
                   spinning, saving, disk, result, log, observerState, mu>>

\* ... and stores what it has made of what it read.  An IssueCode that finds no
\* free value and whose random source works stays here.
Write(t) ==
    /\ calls[t].pc = "read"
    /\ calls[t].op \in Writers
    /\ \E st \in Effect(calls[t], calls[t].snap.st, calls[t].snap.now) :
          /\ pairingCodes' = st.codes
          /\ tokens' = st.toks
          /\ deviceTokens' = st.idx
          /\ nextToken' = st.next
    /\ calls' = [calls EXCEPT ![t].pc = "written"]
    /\ UNCHANGED <<clock, storagePath, spinning, saving, disk, result, log,
                   observerState, mu>>

\* The deferred Unlock or RUnlock.
Release(t) ==
    /\ \/ calls[t].pc = "written"
       \/ calls[t].pc = "read" /\ calls[t].op \in Readers
    /\ mu' = [writer |-> IF mu.writer = t THEN 0 ELSE mu.writer,
              readers |-> mu.readers \ {t}]
    /\ calls' = [calls EXCEPT ![t] = Idle]
    /\ UNCHANGED <<clock, storagePath, pairingCodes, tokens, deviceTokens, nextToken,
                   spinning, saving, disk, result, log, observerState>>

Call == \E t \in Threads, call \in Requests : Acquire(t, call)
Reads == \E t \in Threads : Read(t)
Writes == \E t \in Threads : Write(t)
Returns == \E t \in Threads : Release(t)

\* The time passes whoever holds the lock.
Passes ==
    /\ clock < MaxTime
    /\ clock' = clock + 1
    /\ UNCHANGED <<storagePath, pairingCodes, tokens, deviceTokens, nextToken, spinning,
                   saving, disk, result, log, observerState, lockState>>

\* A service with a storage path, its store empty, called by NumThreads goroutines.
LockInit == Init /\ storagePath = "auth.json"

LockNext == Call \/ Reads \/ Writes \/ Returns \/ Passes

LockSpec == LockInit /\ [][LockNext]_vars

(* ======================================================================== *)
(* The HTTP surface: CORS handler, router and AuthenticateMiddleware          *)
(* ======================================================================== *)
HttpMethods == {"GET", "POST", "OPTIONS"}
\* Two of the routes setupRoutes wraps in protect(): one registered with
\* .Methods("GET"), one registered for every method.
ProtectedRoutes == {"/api/v2/fs/ls", "/api/v2/chat/proxy"}
RouteMethods(route) == IF route = "/api/v2/fs/ls" THEN {"GET"} ELSE HttpMethods

\* Credential values a client can send: those the service can have issued and
\* one it never issued; 0 stands for the empty string.
PresentedValues == 1..(IssueBound + 1)
\* An Authorization header, as strings.Split(authHeader, " ") takes it apart;
\* <<>> is the absent header.
AuthHeaders ==
    {<<>>, <<"Bearer">>}
        \cup {<<scheme, v>> : scheme \in {"Bearer", "bearer"}, v \in PresentedValues}
QueryTokens == {0} \cup PresentedValues

ToLower(str) == IF str = "Bearer" THEN "bearer" ELSE str

\* extractToken: the header wins when it has exactly the two parts "bearer" (in
\* any case) and a value; otherwise the query parameter, "" when absent.
extractToken(header, query) ==
    IF header # <<>> /\ Len(header) = 2 /\ ToLower(header[1]) = "bearer"
    THEN header[2]
    ELSE query

\* What the client gets and whether the wrapped handler ran.
Response(method, route, header, query, status, invoked) ==
    [op |-> "Request", err |-> status, code |-> 0, dev |-> 0,
     tok |-> extractToken(header, query), gone |-> {}, old |-> {}, list |-> {},
     method |-> method, route |-> route, header |-> header, query |-> query,
     invoked |-> invoked]

\* One request to a protected route: the CORS handler answers a preflight
\* itself, the router refuses a method the route is not registered for, and
\* AuthenticateMiddleware decides the rest, calling ValidateToken.
Serve(method, route, preflight, header, query) ==
    LET token == extractToken(header, query)
        reply(status, invoked) ==
            result' = Response(method, route, header, query, status, invoked)
    IN
    /\ UNCHANGED <<clock, storagePath, pairingCodes, nextToken, spinning, saving, disk,
                   log, observerState, lockState>>
    /\ IF method = "OPTIONS" /\ preflight THEN
            reply("204", FALSE) /\ UNCHANGED <<tokens, deviceTokens>>
       ELSE IF method \notin RouteMethods(route) THEN
            reply("405", FALSE) /\ UNCHANGED <<tokens, deviceTokens>>
       ELSE IF method = "OPTIONS" THEN
            reply("next", TRUE) /\ UNCHANGED <<tokens, deviceTokens>>
       ELSE IF token = 0 THEN
            reply("401", FALSE) /\ UNCHANGED <<tokens, deviceTokens>>
       ELSE
            /\ ~locked
            /\ \E st \in ValidateEffect(Tables, token, clock) :
                  tokens' = st.toks /\ deviceTokens' = st.idx
            /\ IF token \in DOMAIN tokens /\ ~tokenExpired(clock, tokens[token])
               THEN reply("next", TRUE)
               ELSE reply("401", FALSE)

Requested ==
    \E method \in HttpMethods, route \in ProtectedRoutes, header \in AuthHeaders,
       query \in QueryTokens :
        \E preflight \in IF method = "OPTIONS" THEN BOOLEAN ELSE {FALSE} :
            Serve(method, route, preflight, header, query)

\* The server of NewServer: a service with a storage path, behind the router.
HttpInit == Init /\ storagePath = "auth.json"

HttpNext ==
    \/ GeneratePairingCode
    \/ GenerateRetryFails
    \/ Redeem
    \/ Revoke
    \/ Requested
    \/ Tick

HttpSpec == HttpInit /\ [][HttpNext]_vars

(* ======================================================================== *)
(* The clock read more than once in a call: ValidateToken and RefreshToken     *)
(* ======================================================================== *)
\* ValidateToken calls time.Now() for its expiry test and again for LastUsedAt;
\* RefreshToken calls it for the test, for ExpiresAt and for LastUsedAt.  Each
\* call is taken apart at these reads, s.mu held in between, the time passing.
Checked(op, tok) ==
    [op |-> op, code |-> 0, dev |-> 0, tok |-> tok, pc |-> "checked", snap |-> NoSnap]

\* Lock, the lookup and the expiry test, at the first reading of the clock.
Checks(t, op, tokenValue) ==
    /\ calls[t].pc = "idle"
    /\ mu = Unlocked
    /\ ~locked
    /\ UNCHANGED <<clock, storagePath, pairingCodes, nextToken, spinning, saving, disk,
                   log, observerState>>
    /\ IF tokenValue \notin DOMAIN tokens THEN
            /\ result' = Result(op, ErrInvalidToken, 0, 0, tokenValue, {})
            /\ UNCHANGED <<tokens, deviceTokens, lockState>>
       ELSE IF tokenExpired(clock, tokens[tokenValue]) THEN
            /\ tokens' = Delete(tokens, tokenValue)
            /\ deviceTokens' = Delete(deviceTokens, tokens[tokenValue].DeviceID)
            /\ result' = Result(op, ErrTokenExpired, 0, 0, tokenValue, {tokenValue})
            /\ UNCHANGED lockState
       ELSE
            /\ mu' = [mu EXCEPT !.writer = t]
            /\ calls' = [calls EXCEPT ![t] = Checked(op, tokenValue)]
            /\ UNCHANGED <<tokens, deviceTokens, result>>

\* RefreshToken: token.ExpiresAt = time.Now().Add(s.tokenExpiry)
RefreshTokenExtends(t) ==
    /\ calls[t].pc = "checked" /\ calls[t].op = "Refresh"
    /\ tokens' = [tokens EXCEPT ![calls[t].tok].ExpiresAt = clock + tokenExpiry]
    /\ calls' = [calls EXCEPT ![t].pc = "extended"]
    /\ UNCHANGED <<clock, storagePath, pairingCodes, deviceTokens, nextToken, spinning,
                   saving, disk, result, log, observerState, mu>>

\* token.LastUsedAt = time.Now(); return token, nil; the deferred Unlock.
Stores(t) ==
    /\ \/ calls[t].pc = "checked" /\ calls[t].op = "Validate"
       \/ calls[t].pc = "extended" /\ calls[t].op = "Refresh"
    /\ tokens' = [tokens EXCEPT ![calls[t].tok] = touch(@, clock)]
    /\ result' = Result(calls[t].op, OK, 0, 0, calls[t].tok, {})
    /\ mu' = Unlocked
    /\ calls' = [calls EXCEPT ![t] = Idle]
    /\ UNCHANGED <<clock, storagePath, pairingCodes, deviceTokens, nextToken, spinning,
                   saving, disk, log, observerState>>

\* One goroutine calls: s.mu lets no second call between the readings.
Caller == CHOOSE t \in Threads : TRUE
ValidateTokenChecks == \E v \in TokenValues : Checks(Caller, "Validate", v)
RefreshTokenChecks == \E v \in TokenValues : Checks(Caller, "Refresh", v)
RefreshExtends == RefreshTokenExtends(Caller)
TokenStores == Stores(Caller)

\* The other methods, each at one instant, when nobody holds s.mu.
IssuesUnlocked == mu = Unlocked /\ GeneratePairingCode
RedeemsUnlocked == mu = Unlocked /\ Redeem
RevokesUnlocked == mu = Unlocked /\ Revoke
SweepsUnlocked == mu = Unlocked /\ cleanupExpired

\* A service with a storage path, its store empty.
ClockInit == Init /\ storagePath = "auth.json"

ClockNext ==
    \/ IssuesUnlocked
    \/ GenerateRetryFails
    \/ RedeemsUnlocked
    \/ RevokesUnlocked
    \/ SweepsUnlocked
    \/ ValidateTokenChecks
    \/ RefreshTokenChecks
    \/ RefreshExtends
    \/ TokenStores
    \/ Tick

ClockSpec == ClockInit /\ [][ClockNext]_vars

(* ======================================================================== *)
(* Properties                                                                *)
(* ======================================================================== *)
\* A step that is a call of the method `op`: every action records its own call.
RedeemOf(code) == result'.op = "Redeem" /\ result'.code = code
ValidateOf(value) == result'.op = "Validate" /\ result'.tok = value
IndexNames(idx, value) == \E d \in DOMAIN idx : idx[d] = value

\* C1: the table and the index describe the same set of credentials: every index
\* row names a table entry of that device, and every table entry has its row.
C1_IndexMatchesTable ==
    /\ \A d \in DOMAIN deviceTokens :
          /\ deviceTokens[d] \in DOMAIN tokens
          /\ tokens[deviceTokens[d]].DeviceID = d
    /\ \A v \in DOMAIN tokens :
          /\ tokens[v].DeviceID \in DOMAIN deviceTokens
          /\ deviceTokens[tokens[v].DeviceID] = v

\* C2: no two entries of the table carry the same device identifier.
C2_OneTokenPerDevice ==
    \A v, w \in DOMAIN tokens : tokens[v].DeviceID = tokens[w].DeviceID => v = w

\* A device that held a credential has paired again and holds the new one only.
C2_Repaired ==
    /\ result.op = "Redeem" /\ result.err = OK
    /\ result.old # {}
    /\ result.tok \in DOMAIN tokens
    /\ tokens[result.tok].DeviceID = result.dev

\* C3: at every instant at most maxActiveDevices entries of the table are
\* non-expired.
C3_CeilingHolds == activeCount(tokens, clock) <= maxActiveDevices

\* C4: Validate and Refresh succeed only for a value that is in the table and
\* whose expiry instant is not before the instant of the call.
C4_NoSuccessPastExpiry ==
    [][(result'.op \in {"Validate", "Refresh"} /\ result'.err = OK)
        => /\ result'.tok \in DOMAIN tokens
           /\ ~Before(tokens[result'.tok].ExpiresAt, clock)]_vars

\* Validate has accepted a credential at the very instant of its expiry.
C4_AcceptedAtExpiry ==
    /\ result.op = "Validate" /\ result.err = OK
    /\ result.tok \in DOMAIN tokens
    /\ tokens[result.tok].ExpiresAt = clock

\* C5: a code is redeemed successfully at most once between two issues of its
\* value: no Redeem succeeds for a code already redeemed since it was issued.
C5_RedeemedAtMostOnce ==
    [][\A c \in Codes :
        (RedeemOf(c) /\ result'.err = OK)
            => c \notin log.redeemed /\ c \in DOMAIN pairingCodes]_vars

\* A redeemed code has been presented again, and refused.
C5_SecondRedeemRefused ==
    /\ result.op = "Redeem" /\ result.err # OK
    /\ result.code \in log.redeemed

\* C6: a Redeem of a code that was already redeemed successfully fails with
\* CodeAlreadyUsed.
C6_SecondRedeemSaysUsed ==
    [][\A c \in Codes :
        (RedeemOf(c) /\ c \in log.redeemed) => result'.err = ErrCodeAlreadyUsed]_vars

\* C7, as stated: a Redeem after the expiry instant of an unredeemed code, whether
\* the code is still stored or was purged meanwhile, fails with CodeExpired and
\* leaves the code absent.
C7_ExpiredCodeSaysExpired ==
    [][\A c \in Codes :
        (/\ RedeemOf(c)
         /\ \/ c \in DOMAIN pairingCodes /\ After(clock, pairingCodes[c].ExpiresAt)
            \/ c \in log.purged)
        => result'.err = ErrCodeExpired /\ c \notin DOMAIN pairingCodes']_vars

\* C7, amended: a Redeem after the expiry instant of a stored code fails with
\* CodeExpired and removes the code; a Redeem of a code that is not stored, a
\* purged one included, fails with InvalidCode and the code stays absent.
C7_ExpiredOrPurged ==
    [][\A c \in Codes : RedeemOf(c) =>
        /\ (c \in DOMAIN pairingCodes /\ After(clock, pairingCodes[c].ExpiresAt))
              => (result'.err = ErrCodeExpired /\ c \notin DOMAIN pairingCodes')
        /\ c \notin DOMAIN pairingCodes
              => (result'.err = ErrInvalidCode /\ c \notin DOMAIN pairingCodes')]_vars

\* An expired code, still stored, was presented and has been removed.
C7_ExpiredCodePresented ==
    /\ result.op = "Redeem" /\ result.err = ErrCodeExpired
    /\ result.code \notin DOMAIN pairingCodes
    /\ result.code \notin log.purged

\* C8, as stated: a Validate after the expiry instant of a credential that was
\* not refreshed, whether it is still stored or was swept meanwhile, fails with
\* TokenExpired, and afterwards neither the table nor the index holds it.
C8_ExpiredTokenSaysExpired ==
    [][\A v \in TokenValues :
        (/\ ValidateOf(v)
         /\ \/ v \in DOMAIN tokens /\ After(clock, tokens[v].ExpiresAt)
            \/ v \in log.swept)
        => /\ result'.err = ErrTokenExpired
           /\ v \notin DOMAIN tokens'
           /\ ~IndexNames(deviceTokens', v)]_vars

\* C8, amended: a Validate after the expiry instant of a stored credential fails
\* with TokenExpired and removes its table entry and its index row; a Validate of
\* a credential the Sweeper removed fails with InvalidToken, and neither the
\* table nor the index holds it.
C8_ExpiredOrSwept ==
    [][\A v \in TokenValues : ValidateOf(v) =>
        /\ (v \in DOMAIN tokens /\ After(clock, tokens[v].ExpiresAt))
              => /\ result'.err = ErrTokenExpired
                 /\ v \notin DOMAIN tokens'
                 /\ ~IndexNames(deviceTokens', v)
                 /\ tokens[v].DeviceID \notin DOMAIN deviceTokens'
        /\ v \in log.swept
              => /\ result'.err = ErrInvalidToken
                 /\ v \notin DOMAIN tokens'
                 /\ ~IndexNames(deviceTokens', v)]_vars

\* An expired credential, still stored, was presented and has been removed.
C8_ExpiredTokenPresented ==
    /\ result.op = "Validate" /\ result.err = ErrTokenExpired
    /\ result.tok \notin DOMAIN tokens
    /\ result.tok \notin log.swept

\* C9: strictly before its expiry instant a stored credential is accepted by
\* Validate, and it leaves the table only by a revocation, by a successful Redeem
\* for its own device, by the eviction of a Redeem at the ceiling, or by a restart.
C9_ValidUntilExpiry ==
    [][\A v \in DOMAIN tokens : Before(clock, tokens[v].ExpiresAt) =>
        /\ ValidateOf(v) => result'.err = OK
        /\ v \notin DOMAIN tokens' =>
              \/ result'.op \in {"Revoke", "RevokeDevice", "NewService"}
              \/ /\ result'.op = "Redeem"
                 /\ v \in result'.gone
                 /\ v \in result'.old => result'.err = OK]_vars

\* C10: when exactly maxActiveDevices entries are non-expired, a Redeem of a valid
\* code for a device without a credential, the random source not failing,
\* succeeds; it removes exactly one entry that was in the table, one of the
\* smallest last-used instant among all entries, and leaves every other entry as
\* it was, still in the table.
C10_EvictsOneOldest ==
    [][\A c \in Codes :
        (/\ RedeemOf(c)
         /\ result'.err # ErrGenerate
         /\ c \in DOMAIN pairingCodes
         /\ ~codeExpired(clock, pairingCodes[c])
         /\ activeCount(tokens, clock) = maxActiveDevices
         /\ \A v \in DOMAIN tokens : tokens[v].DeviceID # result'.dev)
        => /\ result'.err = OK
           /\ \E k \in DOMAIN tokens :
                 /\ DOMAIN tokens \ DOMAIN tokens' = {k}
                 /\ result'.gone = {k}
                 /\ \A j \in DOMAIN tokens : tokens[k].LastUsedAt <= tokens[j].LastUsedAt
                 /\ \A j \in DOMAIN tokens \ {k} : tokens'[j] = tokens[j]
           /\ DOMAIN tokens' \ DOMAIN tokens = {result'.tok}]_vars

\* A new device has paired at the ceiling: the oldest entry went, another
\* credential that was valid is still stored and still valid.
C10_EvictedAndKept ==
    /\ result.op = "Redeem" /\ result.err = OK
    /\ result.gone # {} /\ result.old = {}
    /\ \E j \in DOMAIN tokens :
          /\ j # result.tok
          /\ ~tokenExpired(clock, tokens[j])
          /\ \A g \in result.gone : g < j

\* The table entries bound to a device.
HeldBy(toks, deviceID) == {v \in DOMAIN toks : toks[v].DeviceID = deviceID}

\* C11: a successful Redeem for a device that holds one of exactly
\* maxActiveDevices non-expired credentials removes that device's old credential
\* and no other entry of the table.
C11_RepairingEvictsNobody ==
    [][\A c \in Codes :
        (/\ RedeemOf(c) /\ result'.err = OK
         /\ activeCount(tokens, clock) = maxActiveDevices
         /\ \E v \in HeldBy(tokens, result'.dev) : tokenActive(clock, tokens[v]))
        => DOMAIN tokens \ DOMAIN tokens' = HeldBy(tokens, result'.dev)]_vars

\* C12: after a successful Redeem for a device that had a credential in the
\* table, that credential is no longer in the table and the index row of the
\* device names the newly issued credential, which is in the table.
C12_OldTokenSuperseded ==
    [][\A c \in Codes : (RedeemOf(c) /\ result'.err = OK) =>
        \A v \in HeldBy(tokens, result'.dev) :
            /\ v \notin DOMAIN tokens'
            /\ result'.tok # v
            /\ result'.tok \in DOMAIN tokens'
            /\ result'.dev \in DOMAIN deviceTokens'
            /\ deviceTokens'[result'.dev] = result'.tok]_vars

\* A device has paired again: its index row names the new credential and the
\* one it held is gone from the table.
C12_RowNamesNewToken ==
    /\ result.op = "Redeem" /\ result.err = OK
    /\ result.old # {}
    /\ \A v \in result.old : v \notin DOMAIN tokens /\ v < result.tok
    /\ HeldBy(tokens, result.dev) = {result.tok}
    /\ deviceTokens[result.dev] = result.tok

RefreshOf(value) == result'.op = "Refresh" /\ result'.tok = value

\* C13, as stated: a successful Refresh at t sets the expiry to t + tokenExpiry
\* and the last-used time to t, and the new expiry is strictly greater than the
\* expiry before the call, whatever t.
C13_RefreshStrictlyExtends ==
    [][\A v \in TokenValues : (RefreshOf(v) /\ result'.err = OK) =>
        /\ tokens'[v].ExpiresAt = clock + tokenExpiry
        /\ tokens'[v].LastUsedAt = clock
        /\ tokens'[v].ExpiresAt > tokens[v].ExpiresAt]_vars

\* C13, amended: a successful Refresh at t sets the expiry to t + tokenExpiry and
\* the last-used time to t and changes no other field; the new expiry is never
\* smaller than the expiry before the call, and it is strictly greater when t is
\* later than the credential's last use.
C13_RefreshExtends ==
    [][\A v \in TokenValues : (RefreshOf(v) /\ result'.err = OK) =>
        /\ tokens' = [tokens EXCEPT ![v].ExpiresAt = clock + tokenExpiry,
                                    ![v].LastUsedAt = clock]
        /\ tokens'[v].ExpiresAt >= tokens[v].ExpiresAt
        /\ clock > tokens[v].LastUsedAt
              => tokens'[v].ExpiresAt > tokens[v].ExpiresAt]_vars

\* A credential was refreshed later than it was issued.
C13_RefreshedLater ==
    /\ result.op = "Refresh" /\ result.err = OK
    /\ result.tok \in DOMAIN tokens
    /\ tokens[result.tok].ExpiresAt = clock + tokenExpiry
    /\ tokens[result.tok].CreatedAt < clock

\* The ways a Validate or a Refresh of a value can fail: the error, the table
\* entries and the index rows the failed call has removed.
Failure(value) ==
    {[err |-> e, gone |-> g, rows |-> r] :
        e \in {ErrInvalidToken, ErrTokenExpired}, g \in SUBSET {value},
        r \in SUBSET Devices}
FailsWith(f) ==
    /\ result'.err = f.err
    /\ tokens' = DeleteAll(tokens, f.gone)
    /\ deviceTokens' = DeleteAll(deviceTokens, f.rows)
    /\ pairingCodes' = pairingCodes

\* C14: Refresh(v) fails exactly when Validate(v) would fail in the same state
\* at the same instant, with the same error and the same removals, and
\* conversely; so one succeeds exactly when the other would.
C14_RefreshFailsLikeValidate ==
    [][\A v \in TokenValues :
        /\ RefreshOf(v) =>
              IF result'.err = OK
              THEN ENABLED (ValidateToken(v) /\ result'.err = OK)
              ELSE \E f \in Failure(v) :
                      FailsWith(f) /\ ENABLED (ValidateToken(v) /\ FailsWith(f))
        /\ ValidateOf(v) =>
              IF result'.err = OK
              THEN ENABLED (RefreshToken(v) /\ result'.err = OK)
              ELSE \E f \in Failure(v) :
                      FailsWith(f) /\ ENABLED (RefreshToken(v) /\ FailsWith(f))]_vars

\* A Refresh has found its credential expired and removed it with its row.
C14_RefreshRemovedExpired ==
    /\ result.op = "Refresh" /\ result.err = ErrTokenExpired
    /\ result.tok \notin DOMAIN tokens
    /\ ~IndexNames(deviceTokens, result.tok)
    /\ DOMAIN tokens # {}

RevokeOf(value) == result'.op = "Revoke" /\ result'.tok = value
RevokeDeviceOf(deviceID) == result'.op = "RevokeDevice" /\ result'.dev = deviceID

\* C15: Revoke(v) returns true exactly when v is in the table; it then removes v
\* and the index row of v's device, which names v, and nothing else; when it
\* returns false nothing changes.  Either way v is absent afterwards, so a
\* repeated Revoke(v) returns false and Validate(v) fails with InvalidToken.
C15_RevokeRemovesOne ==
    [][\A v \in TokenValues : RevokeOf(v) =>
        /\ result'.err = "true" <=> v \in DOMAIN tokens
        /\ v \notin DOMAIN tokens'
        /\ pairingCodes' = pairingCodes
        /\ IF v \in DOMAIN tokens
           THEN /\ tokens' = Delete(tokens, v)
                /\ tokens[v].DeviceID \in DOMAIN deviceTokens
                /\ deviceTokens[tokens[v].DeviceID] = v
                /\ deviceTokens' = Delete(deviceTokens, tokens[v].DeviceID)
           ELSE tokens' = tokens /\ deviceTokens' = deviceTokens]_vars

\* A credential was revoked while another device's credential stayed.
C15_Revoked ==
    /\ result.op = "Revoke" /\ result.err = "true"
    /\ result.tok \notin DOMAIN tokens
    /\ ~IndexNames(deviceTokens, result.tok)
    /\ DOMAIN tokens # {}
    /\ DOMAIN deviceTokens # {}

\* C16: RevokeByDevice(d) returns true exactly when the call removed a credential
\* bound to d from the table; it removes the credentials bound to d and the index
\* row of d and nothing else, so that a repeated call returns false.
C16_RevokeDeviceRemovesOne ==
    [][\A d \in Devices : RevokeDeviceOf(d) =>
        /\ result'.err = "true" <=> \E v \in HeldBy(tokens, d) : v \notin DOMAIN tokens'
        /\ tokens' = DeleteAll(tokens, HeldBy(tokens, d))
        /\ deviceTokens' = Delete(deviceTokens, d)
        /\ pairingCodes' = pairingCodes]_vars

\* C17: ListActive returns exactly the credentials of the table whose expiry is
\* later than the instant of the call, and changes neither the code table nor
\* the credential table nor the index.
C17_ListsExactlyActive ==
    [][result'.op = "ListActive" =>
        /\ result'.list = {tokens[v] : v \in {x \in DOMAIN tokens :
                                               tokens[x].ExpiresAt > clock}}
        /\ UNCHANGED <<pairingCodes, tokens, deviceTokens>>]_vars

\* A list that holds a valid credential and omits a stored one that is not.
C17_ListedSome ==
    /\ result.op = "ListActive"
    /\ result.list # {}
    /\ \E v \in DOMAIN tokens : tokens[v] \notin result.list

\* What one Sweeper wake at this instant would leave of the two tables.
sweptStore == DeleteAll(tokens, sweptTokens(tokens, clock))
sweptCodes == DeleteAll(pairingCodes, staleCodes(pairingCodes, clock))
\* The codes a Redeem would accept, the credentials a Validate or a Refresh would.
Redeemable(codes) == {c \in DOMAIN codes : ~codeExpired(clock, codes[c]) /\ ~codes[c].Used}
Accepted(toks) == {v \in DOMAIN toks : ~tokenExpired(clock, toks[v])}

\* C18: a Sweeper wake changes the outcome of no request.  A run and the same
\* run with one more wake at its end differ by that wake only, so in every
\* reachable state the next Redeem, Validate or Refresh has the same outcome
\* before and after a wake: the same codes are redeemable, the same credentials
\* are accepted, and a Redeem at the ceiling takes the same accepted credentials
\* away.
C18_SweeperUnobservable ==
    /\ Redeemable(pairingCodes) = Redeemable(sweptCodes)
    /\ Accepted(tokens) = Accepted(sweptStore)
    /\ {victims \cap Accepted(tokens) : victims \in EvictionChoices(tokens, clock)}
         = {victims \cap Accepted(sweptStore) :
                victims \in EvictionChoices(sweptStore, clock)}

\* C19: with the Sweeper's timer fair, every stored code that is expired or used
\* and every stored credential that is expired is eventually removed, the
\* credential with its index row; and a wake removes exactly the codes that are
\* expired or used, the credentials that are expired and the index rows of their
\* devices.
C19_EventuallySwept ==
    /\ \A c \in Codes, t \in 0..MaxTime :
          (c \in DOMAIN pairingCodes /\ pairingCodes[c].CreatedAt = t
              /\ (After(clock, pairingCodes[c].ExpiresAt) \/ pairingCodes[c].Used))
          ~> ~(c \in DOMAIN pairingCodes /\ pairingCodes[c].CreatedAt = t)
    /\ \A v \in TokenValues :
          (v \in DOMAIN tokens /\ After(clock, tokens[v].ExpiresAt))
          ~> (v \notin DOMAIN tokens /\ ~IndexNames(deviceTokens, v))
    /\ [][result'.op = "Sweep" =>
            /\ pairingCodes' = DeleteAll(pairingCodes,
                  {c \in DOMAIN pairingCodes :
                      clock > pairingCodes[c].ExpiresAt \/ pairingCodes[c].Used})
            /\ tokens' = DeleteAll(tokens,
                  {v \in DOMAIN tokens : clock > tokens[v].ExpiresAt})
            /\ deviceTokens' = DeleteAll(deviceTokens,
                  {tokens[v].DeviceID : v \in DOMAIN tokens \ DOMAIN tokens'})]_vars

C21_WritesTheCopy ==
    /\ [][result'.op = "SaveCopy" =>
            /\ saving'.Tokens = [v \in {x \in DOMAIN tokens : tokens[x].ExpiresAt > clock}
                                    |-> tokens[v]]
            /\ saving'.DeviceTokens =
                  [d \in {x \in DOMAIN deviceTokens :
                             deviceTokens[x] \in DOMAIN saving'.Tokens}
                      |-> deviceTokens[d]]]_vars
    /\ [][(saving.pending /\ result'.op \in {"Validate", "Refresh", "Revoke",
                                              "RevokeDevice"})
            => saving'.pending /\ Marshal(saving') = Marshal(saving)]_vars
    /\ [][(result'.op = "Save" /\ result'.err = OK /\ saving.pending)
            => disk' = Marshal(saving)]_vars

\* C22: persistence leaves the live state alone.  A Save changes neither the code
\* table nor the credential table nor the index, whether it has no path (it then
\* returns success and writes nothing), fails or succeeds; a start whose Load
\* fails, or finds no path or no document, has the store as construction made
\* it, empty.
C22_PersistenceKeepsState ==
    [][/\ result'.op \in {"SaveCopy", "Save"}
            => UNCHANGED <<pairingCodes, tokens, deviceTokens>>
       /\ (result'.op = "Save" /\ storagePath = "")
            => result'.err = OK /\ disk' = disk /\ ~disk'.present
       /\ (result'.op = "NewService"
              /\ (result'.err # OK \/ storagePath = "" \/ ~disk.present))
            => /\ pairingCodes' = Empty
               /\ tokens' = Empty
               /\ deviceTokens' = Empty]_vars

\* A Save has failed at the write while codes and credentials were stored, one of
\* the credentials expired and not yet removed.
C22_FailedSaveKeptAll ==
    /\ result.op = "Save" /\ result.err = "IO_FAILURE"
    /\ DOMAIN pairingCodes # {}
    /\ \E v \in DOMAIN tokens : ~tokenActive(clock, tokens[v])
    /\ DOMAIN deviceTokens # {}

\* C23: Redeem does not wait for the pairing observer.  A successful Redeem with
\* an observer registered returns its credential in the step that starts the
\* observer task and leaves s.mu free; and while observer tasks are running,
\* whether they ever return or not, every operation an observer or anybody else
\* may call (Validate, Refresh, Redeem, Save, Revoke, OnPairingComplete, the
\* Sweeper) can take the lock and complete, unless an IssueCode holds it.
C23_RedeemDoesNotWait ==
    /\ [][(result'.op = "Redeem" /\ result'.err = OK /\ onPairingComplete)
            => /\ result'.tok \in DOMAIN tokens'
               /\ observers'.running > 0
               /\ ~observers'.awaited
               /\ ~spinning']_vars
    /\ []((observers.running > 0 /\ ~spinning)
            => /\ \A v \in TokenValues :
                    /\ ENABLED ValidateToken(v)
                    /\ ENABLED RefreshToken(v)
                    /\ ENABLED RevokeToken(v)
               /\ \A c \in CodesInPlay, d \in Devices :
                    ENABLED ValidatePairingCode(c, d, "Pixel 7")
               /\ \A callback \in BOOLEAN : ENABLED OnPairingComplete(callback)
               /\ ENABLED SaveNoPath
               /\ ENABLED ListActiveDevices
               /\ ENABLED cleanupExpired)

\* An observer was started and has not returned; a Validate called since has
\* completed with success.
C23_ValidatedWhileObserving ==
    /\ observers.running = 1
    /\ ~observers.awaited
    /\ result.op = "Validate" /\ result.err = OK

\* A goroutine is between the Lock or RLock and the Unlock of its call.
InCriticalSection(t) == calls[t].pc # "idle"

\* C24: no two critical sections overlap unless both only read: a call of a
\* method that changes the maps holds s.mu alone from before its read until
\* after its write, and the readers hold it shared.  So what a call writes is
\* what its method makes of the maps as they are at the write, not of maps that
\* changed since it read them, the maps change in no other step, and every
\* execution leaves them as the calls, one after the other in the order of their
\* writes, leave them.
C24_CriticalSectionsExclusive ==
    /\ [](\A t, u \in Threads :
            (t # u /\ InCriticalSection(t) /\ InCriticalSection(u))
                => calls[t].op \in Readers /\ calls[u].op \in Readers)
    /\ [](\A t \in Threads : InCriticalSection(t) =>
            IF calls[t].op \in Readers
            THEN t \in mu.readers /\ mu.writer = 0
            ELSE mu.writer = t /\ mu.readers = {})
    /\ [][Tables' # Tables =>
            \E t \in Threads :
                /\ calls[t].pc = "read" /\ calls'[t].pc = "written"
                /\ calls[t].op \in Writers
                /\ Tables' \in Effect(calls[t], Tables, calls[t].snap.now)]_vars

\* A call has written a credential into the store while the other goroutine
\* could not enter, and two readers are inside together now.
C24_ReadersTogether ==
    /\ \A t \in Threads : calls[t].pc = "read" /\ calls[t].op \in Readers
    /\ DOMAIN tokens # {}
    /\ DOMAIN pairingCodes # {}

\* C25: every call releases the lock and returns after finitely many steps.  All
\* methods but IssueCode are straight-line code over finite maps; IssueCode
\* redraws until it draws a value that is not stored, so it returns only if such
\* a value exists: a call is never inside its uniqueness loop, s.mu held, with
\* every value stored.
C25_EveryCallReturns == spinning => FreeCodes(pairingCodes) # {}

\* C26: the value a successful IssueCode returns is not the value of a code that
\* was stored, unused and unexpired when it was called, and the call overwrites
\* no such entry: every such entry is still stored, unchanged.  The new entry is
\* unused, created now, and expires at now + codeExpiry.
C26_IssuedCodeIsFresh ==
    [][\A c \in Codes :
        (result'.op = "IssueCode" /\ result'.err = OK /\ result'.code = c) =>
            /\ c \in DOMAIN pairingCodes
                  => pairingCodes[c].Used \/ clock > pairingCodes[c].ExpiresAt
            /\ c \in DOMAIN pairingCodes'
            /\ pairingCodes'[c] = [CreatedAt |-> clock, ExpiresAt |-> clock + codeExpiry,
                                   DeviceID |-> 0, Used |-> FALSE]
            /\ \A k \in DOMAIN pairingCodes :
                  (~pairingCodes[k].Used /\ ~(clock > pairingCodes[k].ExpiresAt))
                      => k \in DOMAIN pairingCodes' /\ pairingCodes'[k] = pairingCodes[k]]_vars

\* A code was issued while another, at its expiry instant and still redeemable,
\* was stored; both are stored now.
C26_IssuedBesideActive ==
    /\ result.op = "IssueCode" /\ result.err = OK
    /\ result.code \in DOMAIN pairingCodes
    /\ pairingCodes[result.code].CreatedAt = clock
    /\ \E k \in DOMAIN pairingCodes :
          k # result.code /\ pairingCodes[k].ExpiresAt = clock

\* C27: no code is reactivated.  An entry enters the code table, or changes in
\* it, only when IssueCode returns its value as a new code, and the clock never
\* goes back; a Redeem succeeds only for a stored code that is unused and not
\* past its expiry, and removes it.  So once a code has passed its expiry or was
\* consumed or purged, no Redeem of its value succeeds until the value is issued
\* again.
C27_NoCodeReactivated ==
    [][/\ clock' >= clock
       /\ \A c \in Codes :
            /\ (c \in DOMAIN pairingCodes'
                  /\ (c \notin DOMAIN pairingCodes \/ pairingCodes'[c] # pairingCodes[c]))
                  => result'.op = "IssueCode" /\ result'.err = OK /\ result'.code = c
            /\ (RedeemOf(c) /\ result'.err = OK)
                  => /\ c \in DOMAIN pairingCodes
                     /\ ~pairingCodes[c].Used
                     /\ ~(clock > pairingCodes[c].ExpiresAt)
                     /\ c \notin log.purged
                     /\ c \notin DOMAIN pairingCodes']_vars

\* A code that was purged, expired or used, was presented and refused, while
\* nothing was stored under its value.
C27_PurgedCodeRefused ==
    /\ result.op = "Redeem" /\ result.err = ErrInvalidCode
    /\ result.code \in log.purged
    /\ result.code \notin DOMAIN pairingCodes

\* C28, as stated: when Validate, Refresh, Redeem, ListActive, PeekActiveCode or
\* IssueCode returns, nothing the call examined and found past its expiry is
\* still stored: not the credential or the code looked up, not a credential met
\* by the count of Redeem or by ListActive, not a code met by PeekActiveCode or
\* by the purge of IssueCode.
C28_AllExpiredDeleted ==
    [][/\ \A v \in DOMAIN tokens :
            (/\ clock > tokens[v].ExpiresAt
             /\ \/ ValidateOf(v) \/ RefreshOf(v)
                \/ result'.op = "ListActive"
                \/ /\ result'.op = "Redeem"
                   /\ result'.err \notin {ErrInvalidCode, ErrCodeExpired,
                                          ErrCodeAlreadyUsed})
            => v \notin DOMAIN tokens' /\ ~IndexNames(deviceTokens', v)
       /\ \A c \in DOMAIN pairingCodes :
            (/\ clock > pairingCodes[c].ExpiresAt
             /\ \/ RedeemOf(c)
                \/ result'.op = "PeekActiveCode" /\ result'.code = 0
                \/ result'.op = "IssueCode" /\ ~spinning)
            => c \notin DOMAIN pairingCodes' \/ pairingCodes'[c].CreatedAt = clock]_vars

\* C28, amended: an expired entry that a call looks up by its key, and the codes
\* the purge of IssueCode finds expired, are deleted before the call returns: the
\* credential of a Validate or Refresh with its index row, the code of a Redeem.
\* ListActive and PeekActiveCode skip the expired entries they meet and change
\* nothing, and the count of Redeem skips them too: a Redeem removes credentials
\* by eviction and supersession only.
C28_LookedUpExpiredDeleted ==
    [][/\ \A v \in DOMAIN tokens :
            (clock > tokens[v].ExpiresAt /\ (ValidateOf(v) \/ RefreshOf(v)))
            => /\ v \notin DOMAIN tokens'
               /\ ~IndexNames(deviceTokens', v)
               /\ tokens[v].DeviceID \notin DOMAIN deviceTokens'
       /\ \A c \in DOMAIN pairingCodes :
            (/\ clock > pairingCodes[c].ExpiresAt
             /\ RedeemOf(c) \/ (result'.op = "IssueCode" /\ ~spinning))
            => c \notin DOMAIN pairingCodes' \/ pairingCodes'[c].CreatedAt = clock
       /\ result'.op \in {"ListActive", "PeekActiveCode"}
            => UNCHANGED <<pairingCodes, tokens, deviceTokens>>
       /\ result'.op = "Redeem"
            => \A v \in DOMAIN tokens \ DOMAIN tokens' :
                  \/ tokens[v].DeviceID = result'.dev
                  \/ \A j \in DOMAIN tokens : tokens[v].LastUsedAt <= tokens[j].LastUsedAt]_vars

\* A Validate has removed the expired credential it looked up, while an expired
\* code, which it did not look up, stays stored.
C28_OneDeletedOneLeft ==
    /\ result.op = "Validate" /\ result.err = ErrTokenExpired
    /\ result.tok \notin DOMAIN tokens
    /\ \E c \in DOMAIN pairingCodes : clock > pairingCodes[c].ExpiresAt

\* C29: the handler a route wraps in the authentication middleware runs only
\* for a request whose credential, taken from the Authorization: Bearer header
\* or else from the query parameter token, Validate accepts during the request;
\* a request that reaches the middleware with no credential or with one that
\* Validate rejects gets 401 and the handler does not run - whatever the method
\* and the route.
C29_HandlerOnlyAfterValidate ==
    [][result'.op = "Request" =>
        LET presented == IF /\ result'.header # <<>>
                            /\ Len(result'.header) = 2
                            /\ result'.header[1] \in {"Bearer", "bearer"}
                         THEN result'.header[2]
                         ELSE result'.query
            accepted == /\ presented # 0
                        /\ presented \in DOMAIN tokens
                        /\ ~(clock > tokens[presented].ExpiresAt)
        IN  /\ result'.invoked => accepted
            /\ (~accepted /\ result'.err \notin {"204", "405"})
                  => result'.err = "401" /\ ~result'.invoked]_vars

\* C30: a Redeem(code, d, n) that has succeeded at t has stored, under the value
\* it returned, a credential with DeviceID d, DeviceName n, createdAt =
\* lastUsedAt = t, expiresAt = t + tokenExpiry and the permissions read, write,
\* execute; the index row of d names it and the code is gone from the code
\* table.  A Validate of the value then succeeds, at t and, the time passing, at
\* every instant up to the expiry: the passing of time changes no credential,
\* and Validate accepts every stored credential that is not past its expiry.
C30_RedeemIssuesCredential ==
    /\ []((result.op = "Redeem" /\ result.err = OK) =>
            /\ result.tok \in DOMAIN tokens
            /\ tokens[result.tok] =
                  [Value |-> result.tok, DeviceID |-> result.dev, DeviceName |-> "Pixel 7",
                   CreatedAt |-> clock, ExpiresAt |-> clock + tokenExpiry,
                   LastUsedAt |-> clock, Permissions |-> {"read", "write", "execute"}]
            /\ result.dev \in DOMAIN deviceTokens
            /\ deviceTokens[result.dev] = result.tok
            /\ result.code \notin DOMAIN pairingCodes
            /\ ENABLED (ValidateToken(result.tok) /\ result'.err = OK))
    /\ [](\A v \in DOMAIN tokens :
            (clock <= tokens[v].ExpiresAt /\ ~spinning)
                => ENABLED (ValidateToken(v) /\ result'.err = OK))
    /\ [][result'.op = "Tick" =>
            /\ tokens' = tokens /\ deviceTokens' = deviceTokens
            /\ spinning' = spinning]_vars

\* The credential a Redeem returned was presented at a later instant, before
\* its expiry, and accepted.
C30_ValidatedLater ==
    /\ result.op = "Validate" /\ result.err = OK
    /\ result.tok \in DOMAIN tokens
    /\ tokens[result.tok].CreatedAt < clock
    /\ clock < tokens[result.tok].CreatedAt + tokenExpiry
    /\ tokens[result.tok].ExpiresAt = tokens[result.tok].CreatedAt + tokenExpiry

\* C31: the observer registered when a Redeem runs is started exactly once, with
\* the device identifier and the device name of that call, by each Redeem that
\* returns a credential; a Redeem that returns a credential with no observer
\* registered, and a Redeem that fails, start nothing; and nothing but a
\* successful Redeem starts an observer.
C31_ObserverOncePerPairing ==
    [][/\ (result'.op = "Redeem" /\ result'.err = OK /\ onPairingComplete)
            => /\ observers'.running = IF observers.running < MaxObservers
                                       THEN observers.running + 1
                                       ELSE MaxObservers
               /\ observers'.last = [dev |-> result'.dev, name |-> "Pixel 7"]
               /\ ~observers'.awaited
       /\ (result'.op = "Redeem" /\ (result'.err # OK \/ ~onPairingComplete))
            => observers' = observers
       /\ (observers'.running > observers.running \/ observers'.last \notin
                                                        {observers.last, NoArgs})
            => result'.op = "Redeem" /\ result'.err = OK /\ onPairingComplete]_vars

\* A device has paired with an observer registered: one task runs, no more,
\* started with that device and its name.
C31_ObserverStarted ==
    /\ result.op = "Redeem" /\ result.err = OK
    /\ onPairingComplete
    /\ observers.running = 1
    /\ observers.last = [dev |-> result.dev, name |-> "Pixel 7"]
    /\ result.tok \in DOMAIN tokens /\ tokens[result.tok].DeviceID = result.dev

\* C32: PeekActiveCode returns a code exactly when some stored code is unused
\* and not past its expiry at the instant of the call; the code it returns is
\* such a code; and the call changes neither the code table nor the credential
\* table nor the index.
C32_PeekReturnsActive ==
    [][result'.op = "PeekActiveCode" =>
        LET active == {c \in DOMAIN pairingCodes :
                          ~pairingCodes[c].Used /\ ~(clock > pairingCodes[c].ExpiresAt)}
        IN  /\ result'.code # 0 <=> active # {}
            /\ result'.code # 0 => result'.code \in active
            /\ UNCHANGED <<pairingCodes, tokens, deviceTokens>>]_vars

\* C33: there is a single active code: at no instant does the table hold more
\* than one unused code whose expiry is still ahead, and a PeekActiveCode that
\* follows a successful IssueCode at once returns the code just issued, never an
\* earlier one.
C33_SingleActiveCode ==
    /\ [](Cardinality({c \in DOMAIN pairingCodes :
                          ~pairingCodes[c].Used /\ clock < pairingCodes[c].ExpiresAt}) <= 1)
    /\ [][(result.op = "IssueCode" /\ result.err = OK /\ result'.op = "PeekActiveCode")
            => result'.code = result.code]_vars

\* C34: IssueCode purges first: after its first step the code table holds only
\* the code it issued, new, and codes that were unused and not past their expiry
\* at the call, unchanged; what the call deleted is every code that was past its
\* expiry or used; a call that stays in its uniqueness loop changes nothing more;
\* and IssueCode never changes the credential table or the index.
C34_IssuePurgesStale ==
    [][result'.op = "IssueCode" =>
        /\ UNCHANGED <<tokens, deviceTokens>>
        /\ IF spinning THEN pairingCodes' = pairingCodes
           ELSE /\ \A c \in DOMAIN pairingCodes' :
                     \/ /\ result'.err = OK /\ c = result'.code
                        /\ pairingCodes'[c].CreatedAt = clock
                        /\ ~pairingCodes'[c].Used
                     \/ /\ c \in DOMAIN pairingCodes
                        /\ ~pairingCodes[c].Used
                        /\ ~(clock > pairingCodes[c].ExpiresAt)
                        /\ pairingCodes'[c] = pairingCodes[c]
                /\ result'.purged = {c \in DOMAIN pairingCodes :
                                        \/ clock > pairingCodes[c].ExpiresAt
                                        \/ pairingCodes[c].Used}
                /\ DOMAIN pairingCodes \ DOMAIN pairingCodes' \subseteq result'.purged]_vars

\* An IssueCode has purged an expired code and kept another that was at its
\* expiry instant, beside the code it issued.
C34_PurgedOneKeptOne ==
    /\ result.op = "IssueCode" /\ result.err = OK
    /\ result.purged # {}
    /\ \E k \in DOMAIN pairingCodes :
          /\ k # result.code
          /\ k \notin result.purged
          /\ pairingCodes[k].CreatedAt < clock

\* C35: a start imports a credential only from the document and only if its
\* expiry is later than the instant of the load, with the fields the document
\* gives it, and imports an index row only from the document and only if the
\* credential it names was imported; so after the start every index row names a
\* credential that is in the table.
C35_LoadImportsLive ==
    [][result'.op = "NewService" =>
        /\ \A v \in DOMAIN tokens' :
              /\ storagePath # "" /\ disk.present
              /\ v \in DOMAIN disk.tokens
              /\ disk.tokens[v].expires_at > clock
              /\ tokens'[v] =
                    [Value |-> disk.tokens[v].token,
                     DeviceID |-> disk.tokens[v].device_id,
                     DeviceName |-> disk.tokens[v].device_name,
                     CreatedAt |-> disk.tokens[v].created_at,
                     ExpiresAt |-> disk.tokens[v].expires_at,
                     LastUsedAt |-> disk.tokens[v].last_used_at,
                     Permissions |-> disk.tokens[v].permissions]
        /\ \A d \in DOMAIN deviceTokens' :
              /\ storagePath # "" /\ disk.present
              /\ d \in DOMAIN disk.device_tokens
              /\ deviceTokens'[d] = disk.device_tokens[d]
              /\ deviceTokens'[d] \in DOMAIN tokens']_vars

\* A service has started from a document whose credential had reached its expiry:
\* neither the credential nor the index row that names it was imported.
C35_ExpiredNotImported ==
    /\ result.op = "NewService" /\ result.err = OK
    /\ disk.present
    /\ \E v \in DOMAIN disk.tokens :
          /\ disk.tokens[v].expires_at <= clock
          /\ v \notin DOMAIN tokens
          /\ \E d \in DOMAIN disk.device_tokens :
                disk.device_tokens[d] = v /\ d \notin DOMAIN deviceTokens

\* C36: a successful Validate(v) changes the last-used time of v, to the instant
\* of the call, and nothing else; a successful Refresh(v) changes no credential
\* but v; a Validate or Refresh that fails with InvalidToken changes nothing; one
\* that fails with TokenExpired removes v and the index row of its device, which
\* names v, and nothing else; and none of them changes the code table.
C36_ValidateTouchesOnlyItsToken ==
    [][\A v \in TokenValues : (ValidateOf(v) \/ RefreshOf(v)) =>
        /\ pairingCodes' = pairingCodes
        /\ result'.err \in {OK, ErrInvalidToken, ErrTokenExpired}
        /\ result'.err = ErrInvalidToken
              => tokens' = tokens /\ deviceTokens' = deviceTokens
        /\ result'.err = ErrTokenExpired
              => /\ v \in DOMAIN tokens
                 /\ tokens' = Delete(tokens, v)
                 /\ deviceTokens' = Delete(deviceTokens, tokens[v].DeviceID)
                 /\ \A d \in DOMAIN deviceTokens \ DOMAIN deviceTokens' :
                       deviceTokens[d] = v
        /\ result'.err = OK
              => /\ v \in DOMAIN tokens
                 /\ DOMAIN tokens' = DOMAIN tokens
                 /\ \A w \in DOMAIN tokens \ {v} : tokens'[w] = tokens[w]
                 /\ deviceTokens' = deviceTokens
        /\ (ValidateOf(v) /\ result'.err = OK)
              => tokens' = [tokens EXCEPT ![v].LastUsedAt = clock]]_vars

\* A Validate has recorded the use of one credential, later than its issue and
\* at the very instant of its expiry, while another credential and a code were
\* stored.
C36_TouchedBesideOthers ==
    /\ result.op = "Validate" /\ result.err = OK
    /\ result.tok \in DOMAIN tokens
    /\ tokens[result.tok].LastUsedAt = clock
    /\ tokens[result.tok].ExpiresAt = clock
    /\ DOMAIN tokens # {result.tok}
    /\ DOMAIN pairingCodes # {}

\* C37: a Redeem that returns a failure, whichever, leaves the credential table
\* and the index as they were: it has evicted nothing and superseded nothing.
C37_FailedRedeemChangesNothing ==
    [][(result'.op = "Redeem" /\ result'.err # OK)
        => tokens' = tokens /\ deviceTokens' = deviceTokens]_vars

\* C38: the operations agree on when an entry is expired, the instant equal to
\* its expiry included.  Whenever the lock is free, a Validate of a stored
\* credential would succeed exactly if a ListActive would return it and the
\* count of Redeem would count it, and a Redeem of a stored code would pass its
\* expiry check exactly if a PeekActiveCode could return that code.
C38_ExpiryTestsAgree ==
    ~locked =>
        /\ \A v \in DOMAIN tokens :
              /\ (ENABLED (ValidateToken(v) /\ result'.err = OK))
                    <=> (ENABLED (ListActiveDevices /\ tokens[v] \in result'.list))
              /\ (ENABLED (ValidateToken(v) /\ result'.err = OK))
                    <=> activeCount(tokens, clock)
                            = activeCount(Delete(tokens, v), clock) + 1
        /\ \A c \in DOMAIN pairingCodes :
              (ENABLED (ValidatePairingCode(c, 1, "Pixel 7")
                            /\ result'.err \notin {ErrInvalidCode, ErrCodeExpired}))
                    <=> (ENABLED (GetActivePairingCode /\ result'.code = c))

\* C39: a revocation lasts.  A credential that Revoke or RevokeByDevice has just
\* removed is not in the table of the service constructed next, which loads the
\* document saved last; and while the process runs, a credential enters the
\* table only as the new value of a successful Redeem, so that a removed one
\* never comes back to be validated, refreshed or listed.
C39_RevokedStaysRevoked ==
    /\ [][(result.op \in {"Revoke", "RevokeDevice"} /\ result'.op = "NewService")
            => \A v \in result.gone : v \notin DOMAIN tokens']_vars
    /\ [][result'.op # "NewService" =>
            \A v \in DOMAIN tokens' \ DOMAIN tokens :
                /\ result'.op = "Redeem" /\ result'.err = OK /\ result'.tok = v
                /\ v > nextToken]_vars

\* C40: every stored credential has createdAt <= lastUsedAt <= expiresAt, in
\* every reachable state; and no step lowers the lastUsedAt or the expiresAt of
\* a credential that stays stored, or changes its value, its DeviceID or its
\* createdAt.
C40_TimesOrdered ==
    /\ [](\A v \in DOMAIN tokens :
            /\ tokens[v].CreatedAt <= tokens[v].LastUsedAt
            /\ tokens[v].LastUsedAt <= tokens[v].ExpiresAt)
    /\ [][\A v \in DOMAIN tokens \cap DOMAIN tokens' :
            /\ tokens'[v].LastUsedAt >= tokens[v].LastUsedAt
            /\ tokens'[v].ExpiresAt >= tokens[v].ExpiresAt
            /\ tokens'[v].Value = tokens[v].Value
            /\ tokens'[v].DeviceID = tokens[v].DeviceID
            /\ tokens'[v].CreatedAt = tokens[v].CreatedAt]_vars

====
